---- MODULE Spec2Model ----
(***************************************************************************)
(* Model of createTimeoutWrapper (src/src/index.ts): one invocation of the *)
(* returned wrapper, run on a single-threaded event loop.                  *)
(*                                                                         *)
(* The synchronous part of the invocation is a sequence of steps driven by *)
(* pc; nothing else can run until it reaches its await (pc = "awaiting").  *)
(* Every promise reaction is one job of the FIFO microtask queue; timers   *)
(* (the check interval, the cleanup budget) fire only when the queue is    *)
(* empty.  The caller's task, cleanup handler and timeout handler are      *)
(* opaque: they may throw synchronously, return a settled promise, or      *)
(* settle later at any moment.  The logger does not throw.                 *)
(*                                                                         *)
(* Times are in units of checkIntervalMs (1000 ms).                        *)
(***************************************************************************)
EXTENDS Integers, Sequences, FiniteSets, TLC

\* ---------------------------------------------------------------- bounds
MaxTime == 5

\* ------------------------------------------------------- option defaults
safetyMarginMs == 5
checkIntervalMs == 1
cleanupTimeMs == 3

\* ---------------------------------------------------------------- values
\* Every JavaScript value the model distinguishes is a record of one shape.
\* isLambdaTimeout / handlerError are the TimeoutError fields; a value that
\* is not a TimeoutError has them unset.
Val(k) == [kind |-> k, isLambdaTimeout |-> FALSE, handlerError |-> "unset"]

None == Val("none")

\* the two values `undefined` / `null`: reading a property of them throws
Nullish == Val("nullish")

\* the TypeError raised by `x.message` when x is undefined or null
TypeError == Val("TypeError")

\* the timeout error without its marker
TimeoutErrorUnmarked == [kind |-> "LambdaTimeout", isLambdaTimeout |-> FALSE, handlerError |-> "unset"]

\* lines 179-180: new Error('Lambda function timeout detected'), isLambdaTimeout = true
TimeoutError == [kind |-> "LambdaTimeout", isLambdaTimeout |-> TRUE, handlerError |-> "unset"]

\* new Error(`Timeout handler failed: ...`), isLambdaTimeout = true,
\* handlerError = the value the handler failed with
HandlerFailedError(e) == [kind |-> "TimeoutHandlerFailed", isLambdaTimeout |-> TRUE, handlerError |-> e.kind]

\* new Error('User cleanup handler exceeded allocated time')
CleanupExceededError == Val("CleanupExceeded")

ConfigError(which) == Val(which)

\* what the task can resolve with / reject with
TaskResults == {Val("result1"), Val("result2")}
TaskErrors == {Val("taskError")}

\* what the remaining-time source, the cleanup handler and the timeout
\* handler can throw or reject with: an Error object, or undefined/null
SourceErrors == {Val("sourceError"), Nullish}
CleanupErrors == {Val("cleanupError"), Nullish}
HandlerErrors == {Val("handlerError"), Nullish}

\* what the remaining-time source can report
RemainingValues == {safetyMarginMs - 1, safetyMarginMs, safetyMarginMs + 1,
                    3 * safetyMarginMs, 3 * safetyMarginMs + 1}

\* what the default source of line 49 reports: 15 minutes
DefaultRemaining == 900

\* a call of the source: it returns a number or throws
SourceOutcomes == [t : {"returns"}, n : RemainingValues, e : {None}]
                  \cup [t : {"throws"}, n : {0}, e : SourceErrors]

\* a call of a user callable returning a promise: it throws synchronously,
\* returns an already settled promise (or a plain value), or a pending one
CallOutcomes(results, errors) ==
    [t : {"throws", "rejected"}, v : errors]
    \cup [t : {"fulfilled"}, v : results]
    \cup [t : {"pending"}, v : {None}]

\* the ways an argument can be passed for a callable parameter
ArgKinds == {"function", "absent", "truthyNonFunction", "falsyNonFunction"}

\* -------------------------------------------------------------- promises
Pending == [st |-> "pending", v |-> None]
Fulfilled(x) == [st |-> "fulfilled", v |-> x]
Rejected(x) == [st |-> "rejected", v |-> x]
NotCalled == [st |-> "notCalled", v |-> None]
Threw(x) == [st |-> "threw", v |-> x]

VARIABLES
    \* options and arguments of the invocation
    isUsingFallbackTimer,      \* options.isUsingFallbackTimer
    getRemainingTimeInMillis,  \* how options.getRemainingTimeInMillis was given
    timeoutHandler,            \* how the timeoutHandler argument was given
    userCleanupHandler,        \* how the userCleanupHandler argument was given
    \* the invocation
    pc,                        \* position of the wrapper's async function body
    result,                    \* the promise the invocation returned
    startTime,                 \* fallback baseline: Date.now() at start (-1: null)
    initialTimeRemaining,      \* fallback baseline: first reading (-1: null)
    intervalId,                \* the local variable: "null" or "timer"
    intervalActive,            \* whether the runtime still holds the interval
    intervalDue,               \* when the interval fires next
    clearCount,                \* number of clearInterval calls
    checkCount,                \* closure counter of checkTimeout
    task,                      \* the promise fn() returned
    p1,                        \* fn().then(...)
    p2,                        \* new Promise<never>(...)
    race,                      \* Promise.race([p1, p2])
    \* shutdown sequence
    cleanup,                   \* the promise userCleanupHandler() returned
    cleanupTimer,              \* userCleanupTimeout: "none","armed","cleared","fired"
    cleanupDue,                \* when userCleanupTimeout fires
    pu,                        \* new Promise<void>(async (resolve, reject) => ...)
    puc,                       \* pu.catch(...), i.e. userCleanupPromise
    pclSubscribed,             \* cleanupPromise has subscribed to userCleanupPromise
    handler,                   \* the promise timeoutHandler() returned
    pa,                        \* the promise of the async callback of line 175
    phSubscribed,              \* the .then promise of line 175 has subscribed to pa
    ph,                        \* cleanupPromise.then(async () => ...)
    phc,                       \* ph.catch(...)
    \* event loop
    microtasks,                \* FIFO queue of promise reaction jobs
    now,                       \* the clock
    \* observations
    lastRemaining,             \* remainingTime of the latest check (-1: none)
    checks,                    \* number of checks started
    triggerCheck,              \* which check triggered shutdown (0: none)
    throwCheck,                \* which check's computation threw (0: none)
    sourceThrown,              \* what that computation, or the baseline read, threw
    sourceCalls,               \* number of calls of getRemainingTimeInMillis
    checkLogged,               \* the latest check logged its 'Timeout check' line
    cleanupCalls,              \* number of calls of userCleanupHandler
    handlerCalls,              \* number of calls of timeoutHandler
    taskSettledAt,             \* [triggered, threw] when the task settled
    lateCheck,                 \* a check ran after the invocation settled
    overlap,                   \* timeoutHandler was called while cleanup still ran
    unhandled                  \* a promise nobody observes was rejected

optVars == <<isUsingFallbackTimer, getRemainingTimeInMillis, timeoutHandler, userCleanupHandler>>
invVars == <<pc, result, startTime, initialTimeRemaining>>
timerVars == <<intervalId, intervalActive, intervalDue, clearCount>>
raceVars == <<task, p1, p2, race>>
cleanupVars == <<cleanup, cleanupTimer, cleanupDue, pu, puc, pclSubscribed>>
handlerVars == <<handler, pa, phSubscribed, ph, phc>>
obsVars == <<lastRemaining, checks, triggerCheck, throwCheck, sourceThrown, sourceCalls,
             checkLogged,
             cleanupCalls, handlerCalls, taskSettledAt, lateCheck, overlap, unhandled>>

vars == <<optVars, invVars, timerVars, checkCount, raceVars, cleanupVars,
          handlerVars, microtasks, now, obsVars>>

hasCleanup == userCleanupHandler = "function"
triggered == triggerCheck > 0
checkThrew == throwCheck > 0
invSettled == pc = "done"

\* the event loop is free to run jobs, timers and outside events
Looping == pc \in {"awaiting", "done"}

Init ==
    /\ isUsingFallbackTimer \in BOOLEAN
    /\ getRemainingTimeInMillis \in {"function", "absent", "nonFunction"}
    /\ timeoutHandler \in ArgKinds
    /\ userCleanupHandler \in ArgKinds
    /\ pc = "start"
    /\ result = Pending
    /\ startTime = -1
    /\ initialTimeRemaining = -1
    /\ intervalId = "null"
    /\ intervalActive = FALSE
    /\ intervalDue = 0
    /\ clearCount = 0
    /\ checkCount = 0
    /\ task = NotCalled
    /\ p1 = Pending
    /\ p2 = Pending
    /\ race = Pending
    /\ cleanup = NotCalled
    /\ cleanupTimer = "none"
    /\ cleanupDue = 0
    /\ pu = Pending
    /\ puc = Pending
    /\ pclSubscribed = FALSE
    /\ handler = NotCalled
    /\ pa = Pending
    /\ phSubscribed = FALSE
    /\ ph = Pending
    /\ phc = Pending
    /\ microtasks = <<>>
    /\ now = 0
    /\ lastRemaining = -1
    /\ checks = 0
    /\ triggerCheck = 0
    /\ throwCheck = 0
    /\ sourceThrown = None
    /\ sourceCalls = 0
    /\ checkLogged = FALSE
    /\ cleanupCalls = 0
    /\ handlerCalls = 0
    /\ taskSettledAt = [settled |-> FALSE, triggered |-> FALSE, threw |-> FALSE]
    /\ lateCheck = FALSE
    /\ overlap = FALSE
    /\ unhandled = FALSE

\* ------------------------------------------------------------- helpers
\* reject(e) of the timeout-detection promise: a settled promise ignores it
RejectP2(e) == IF p2.st = "pending" THEN Rejected(e) ELSE p2

\* the reaction Promise.race registered on p2, once it has subscribed
RejectP2Jobs == IF p2.st = "pending" /\ Looping THEN <<"raceP2">> ELSE <<>>

\* what one call of getRemainingTimeInMillis can do
SourceCall ==
    IF getRemainingTimeInMillis = "absent"
      THEN {[t |-> "returns", n |-> DefaultRemaining, e |-> None]}
      ELSE SourceOutcomes

\* the promise a call of a user callable leaves behind
PromiseOf(o) ==
    CASE o.t = "fulfilled" -> Fulfilled(o.v)
      [] o.t = "rejected" -> Rejected(o.v)
      [] o.t = "throws" -> Threw(o.v)
      [] OTHER -> Pending

\* ------------------------------------------- the synchronous invocation
\* clearInterval(intervalId); intervalId = null, guarded by if (intervalId)
ClearedId == "null"
ClearedActive == IF intervalId = "timer" THEN FALSE ELSE intervalActive

\* a clearInterval that is not guarded by the handle: it is called whatever
\* the handle holds
ClearCallsUnguarded == IF intervalId \in {"timer", "null"} THEN 1 ELSE 0

\* the number of clearInterval calls one guarded clearing makes
ClearCalls == IF intervalId = "timer" THEN 1 ELSE 0

\* a threshold test that excludes equality
BreachedStrict(n) == n < safetyMarginMs

\* line 134: the shutdown threshold
Breached(n) == n <= safetyMarginMs

\* a trigger that leaves the interval running
TriggerActiveKept == intervalActive

\* lines 135-138: the trigger stops the interval before anything else
TriggerActive == ClearedActive

\* a validation that lets any source through
ValidationErrorNoSourceCheck ==
    CASE timeoutHandler # "function" ->
           ConfigError("Timeout handler function is required")
      [] userCleanupHandler = "truthyNonFunction" ->
           ConfigError("User cleanup handler must be a function if provided")
      [] OTHER -> None

\* a validation that lets any cleanup argument through
ValidationErrorNoCleanupCheck ==
    CASE getRemainingTimeInMillis = "nonFunction" ->
           ConfigError("getRemainingTimeInMillis is required")
      [] timeoutHandler # "function" ->
           ConfigError("Timeout handler function is required")
      [] OTHER -> None

\* lines 74-85: the error the argument validation throws, None if it passes.
\* An omitted getRemainingTimeInMillis was replaced by the default of line 49;
\* a falsy userCleanupHandler is taken as not provided.
ValidationError ==
    CASE getRemainingTimeInMillis = "nonFunction" ->
           ConfigError("getRemainingTimeInMillis is required")
      [] timeoutHandler # "function" ->
           ConfigError("Timeout handler function is required")
      [] userCleanupHandler = "truthyNonFunction" ->
           ConfigError("User cleanup handler must be a function if provided")
      [] OTHER -> None

\* a baseline failure reported as a timeout
BaselineRejectionMarked(e) == Rejected([e EXCEPT !.isLambdaTimeout = TRUE])

\* line 97 lies outside the try of line 99: what the baseline read throws
\* becomes, unchanged, the rejection of the async function
BaselineRejection(e) == Rejected(e)

\* a race whose array starts with the timeout-detection promise
EnterRaceWithoutTask == "executor"

\* lines 99-103: the first thing the try block evaluates is fn()
EnterRace == "callTask"

\* lines 74-97: argument validation and the fallback baseline
Invoke ==
    /\ pc = "start"
    /\ IF ValidationError # None
         THEN /\ result' = Rejected(ValidationError)
              /\ pc' = "done"
              /\ UNCHANGED <<startTime, initialTimeRemaining, sourceCalls, sourceThrown>>
         ELSE IF ~isUsingFallbackTimer
           THEN /\ pc' = EnterRace
                /\ UNCHANGED <<result, startTime, initialTimeRemaining, sourceCalls,
                               sourceThrown>>
           ELSE \E src \in SourceCall :
                  /\ startTime' = now
                  /\ sourceCalls' = sourceCalls + 1
                  /\ IF src.t = "throws"
                       THEN /\ result' = BaselineRejection(src.e)
                            /\ sourceThrown' = src.e
                            /\ pc' = "done"
                            /\ UNCHANGED initialTimeRemaining
                       ELSE /\ pc' = EnterRace
                            /\ initialTimeRemaining' = src.n
                            /\ UNCHANGED <<result, sourceThrown>>
    /\ UNCHANGED <<optVars, timerVars, checkCount, raceVars, cleanupVars,
                   handlerVars, microtasks, now>>
    /\ UNCHANGED <<lastRemaining, checks, triggerCheck, throwCheck,
                   checkLogged, cleanupCalls, handlerCalls, taskSettledAt, lateCheck,
                   overlap, unhandled>>

\* lines 101-111: fn() is called and .then(...) is attached to its promise;
\* a synchronous throw of fn leaves through the finally block
CallTask ==
    /\ pc = "callTask"
    /\ \E o \in CallOutcomes(TaskResults, TaskErrors) :
         /\ task' = PromiseOf(o)
         /\ IF o.t = "throws"
              THEN /\ result' = Rejected(o.v)
                   /\ pc' = "done"
                   /\ UNCHANGED <<microtasks, taskSettledAt>>
              ELSE /\ pc' = "executor"
                   /\ microtasks' = IF o.t = "pending" THEN microtasks
                                    ELSE Append(microtasks, "taskThen")
                   /\ taskSettledAt' = IF o.t = "pending" THEN taskSettledAt
                                       ELSE [settled |-> TRUE, triggered |-> FALSE, threw |-> FALSE]
                   /\ UNCHANGED result
    /\ UNCHANGED <<optVars, startTime, initialTimeRemaining, timerVars, checkCount,
                   p1, p2, race, cleanupVars, handlerVars, now>>
    /\ UNCHANGED <<lastRemaining, checks, triggerCheck, throwCheck, sourceThrown, sourceCalls,
                   checkLogged,
                   cleanupCalls, handlerCalls, lateCheck, overlap, unhandled>>

\* lines 114-212: the executor of the timeout-detection promise sets the
\* counter and starts the interval
SetupInterval ==
    /\ pc = "executor"
    /\ checkCount' = 0
    /\ intervalId' = "timer"
    /\ intervalActive' = TRUE
    /\ intervalDue' = now + checkIntervalMs
    /\ pc' = "initialCheck"
    /\ UNCHANGED clearCount
    /\ UNCHANGED <<optVars, result, startTime, initialTimeRemaining, raceVars,
                   cleanupVars, handlerVars, microtasks, now, obsVars>>

\* a counter that is never wrapped
NextCheckCountUnwrapped(c) == c + 1

\* line 127: checkCount = (checkCount + 1) % 10
NextCheckCount(c) == (c + 1) % 10

\* lines 126-129: isDangerZone || checkCount === 0, with the counter
\* already advanced
LogsCheck(remaining, c) == remaining <= safetyMarginMs * 3 \/ c = 0

\* a cleanup handler that is awaited without a budget
BudgetTimerMissing == "none"

\* lines 150-153: userCleanupTimeout = setTimeout(..., cleanupTimeMs)
BudgetTimer == "armed"

\* a check that reads the source in either mode
ReadsSourceAlways == TRUE

\* lines 121-123: a check calls the source in live mode only
ReadsSource == ~isUsingFallbackTimer

\* a fallback computation with the sign of the elapsed time reversed
FallbackRemainingGrowing == initialTimeRemaining + (now - startTime)

\* line 122: initialTimeRemaining - (Date.now() - startTime)
FallbackRemaining == initialTimeRemaining - (now - startTime)

\* lines 118-199: one run of checkTimeout up to its first suspension.
\* src is what the source does if it is called, cb what the cleanup handler
\* does if it is called, catchJob the .catch attached to this run.
checkTimeout(src, cb, catchJob) ==
    LET remaining == IF ReadsSource
                       THEN src
                       ELSE [t |-> "returns", n |-> FallbackRemaining, e |-> None]
        n == checks + 1
    IN
    /\ checks' = n
    /\ sourceCalls' = IF ReadsSource THEN sourceCalls + 1 ELSE sourceCalls
    /\ lateCheck' = (lateCheck \/ invSettled)
    /\ IF remaining.t = "throws"
         THEN \* line 191: the catch block of checkTimeout
           /\ throwCheck' = n
           /\ sourceThrown' = remaining.e
           /\ IF remaining.e = Nullish
                THEN \* line 192: error.message throws inside the catch block
                  /\ microtasks' = Append(microtasks, catchJob)
                  /\ UNCHANGED <<intervalId, intervalActive, clearCount, p2>>
                ELSE \* lines 194-197
                  /\ intervalId' = ClearedId
                  /\ intervalActive' = ClearedActive
                  /\ clearCount' = clearCount + ClearCalls
                  /\ p2' = RejectP2(remaining.e)
                  /\ microtasks' = microtasks \o RejectP2Jobs
           /\ UNCHANGED <<checkCount, checkLogged, lastRemaining, triggerCheck,
                          cleanupCalls, cleanup, cleanupTimer, cleanupDue, pu,
                          unhandled>>
         ELSE
           /\ checkCount' = NextCheckCount(checkCount)
           /\ checkLogged' = LogsCheck(remaining.n, NextCheckCount(checkCount))
           /\ lastRemaining' = remaining.n
           /\ UNCHANGED <<throwCheck, sourceThrown, p2>>
           /\ IF Breached(remaining.n)
                THEN \* lines 134-189
                  /\ triggerCheck' = n
                  /\ intervalId' = ClearedId
                  /\ intervalActive' = TriggerActive
                  /\ clearCount' = clearCount + ClearCalls
                  /\ IF hasCleanup
                       THEN \* lines 145-171
                         /\ cleanupCalls' = cleanupCalls + 1
                         /\ cleanup' = PromiseOf(cb)
                         /\ cleanupDue' = now + cleanupTimeMs
                         /\ IF cb.t = "throws"
                              THEN \* line 160: the catch block, run synchronously
                                /\ cleanupTimer' = "cleared"
                                /\ pu' = IF cb.v = Nullish THEN pu ELSE Rejected(cb.v)
                                /\ unhandled' = (unhandled \/ cb.v = Nullish)
                                /\ microtasks' = microtasks
                                      \o (IF cb.v = Nullish THEN <<>> ELSE <<"cleanupCaught">>)
                                      \o <<"cleanupChain">>
                              ELSE
                                /\ cleanupTimer' = BudgetTimer
                                /\ UNCHANGED <<pu, unhandled>>
                                /\ microtasks' = microtasks
                                      \o (IF cb.t = "pending" THEN <<>> ELSE <<"cleanupResumed">>)
                                      \o <<"cleanupChain">>
                       ELSE \* cleanupPromise is Promise.resolve()
                         /\ microtasks' = Append(microtasks, "systemHandler")
                         /\ UNCHANGED <<cleanupCalls, cleanup, cleanupTimer, cleanupDue,
                                        pu, unhandled>>
                ELSE
                  /\ UNCHANGED <<triggerCheck, intervalId, intervalActive, clearCount,
                                 microtasks,
                                 cleanupCalls, cleanup, cleanupTimer, cleanupDue, pu,
                                 unhandled>>
    /\ UNCHANGED <<optVars, result, startTime, initialTimeRemaining, task, p1, race,
                   puc, pclSubscribed, handlerVars, now, handlerCalls, taskSettledAt,
                   overlap>>

\* lines 214-219: the initial check, run inside the executor
InitialCheck ==
    /\ pc = "initialCheck"
    /\ \E src \in SourceCall, cb \in CallOutcomes({None}, CleanupErrors) :
         checkTimeout(src, cb, "initialCheckCatch")
    /\ pc' = "subscribe"
    /\ UNCHANGED intervalDue

\* line 101: Promise.race subscribes to both promises and the body awaits it
Subscribe ==
    /\ pc = "subscribe"
    /\ pc' = "awaiting"
    /\ microtasks' = IF p2.st = "rejected" THEN Append(microtasks, "raceP2") ELSE microtasks
    /\ UNCHANGED <<optVars, result, startTime, initialTimeRemaining, timerVars,
                   checkCount, raceVars, cleanupVars, handlerVars, now, obsVars>>

\* ------------------------------------------------------ the event loop
NextJob(name) ==
    /\ Looping
    /\ microtasks # <<>>
    /\ Head(microtasks) = name

\* a .then callback that forgets `return result`
ThenResultDropped == IF task.st = "fulfilled" THEN Fulfilled(None) ELSE task

\* lines 103-111: what fn().then(result => ... return result) settles with;
\* a rejection passes through
ThenResult == task

\* lines 103-111: the reaction of fn().then(...) to the task's promise
TaskThen ==
    /\ NextJob("taskThen")
    /\ p1' = ThenResult
    /\ IF task.st = "fulfilled"
         THEN /\ intervalId' = ClearedId
              /\ intervalActive' = ClearedActive
              /\ clearCount' = clearCount + ClearCalls
         ELSE UNCHANGED <<intervalId, intervalActive, clearCount>>
    /\ microtasks' = Append(Tail(microtasks), "raceP1")
    /\ UNCHANGED <<optVars, invVars, intervalDue, checkCount, task, p2, race,
                   cleanupVars, handlerVars, now, obsVars>>

\* line 101: Promise.race settles with the first of its promises to settle
RaceP1 ==
    /\ NextJob("raceP1")
    /\ race' = IF race.st = "pending" THEN p1 ELSE race
    /\ microtasks' = Tail(microtasks)
                     \o (IF race.st = "pending" THEN <<"awaitRace">> ELSE <<>>)
    /\ UNCHANGED <<optVars, invVars, timerVars, checkCount, task, p1, p2,
                   cleanupVars, handlerVars, now, obsVars>>

RaceP2 ==
    /\ NextJob("raceP2")
    /\ race' = IF race.st = "pending" THEN p2 ELSE race
    /\ microtasks' = Tail(microtasks)
                     \o (IF race.st = "pending" THEN <<"awaitRace">> ELSE <<>>)
    /\ UNCHANGED <<optVars, invVars, timerVars, checkCount, task, p1, p2,
                   cleanupVars, handlerVars, now, obsVars>>

\* a wrapper without the finally block
FinallyActiveSkipped == intervalActive

\* lines 222-229: the finally block releases the interval if it is still held
FinallyActive == ClearedActive

\* lines 101, 222-229: the await resumes, the finally block runs and the
\* invocation settles as the race did
AwaitRace ==
    /\ NextJob("awaitRace")
    /\ pc = "awaiting"
    /\ intervalId' = ClearedId
    /\ intervalActive' = FinallyActive
    /\ clearCount' = clearCount + ClearCalls
    /\ result' = race
    /\ pc' = "done"
    /\ microtasks' = Tail(microtasks)
    /\ UNCHANGED <<optVars, startTime, initialTimeRemaining, intervalDue, checkCount,
                   raceVars, cleanupVars, handlerVars, now, obsVars>>

\* an executor that forgets clearTimeout
ResumedTimerKept == cleanupTimer

\* lines 157, 161: clearTimeout(userCleanupTimeout) on either outcome of the
\* await; clearing a timer that has fired changes nothing
ResumedTimer == IF cleanupTimer = "armed" THEN "cleared" ELSE cleanupTimer

\* a resolve/reject that also acts on a settled promise
PuSettlesAgain(lost) == ~lost

\* lines 158, 163: resolve()/reject(error) of userCleanupPromise act only
\* while it is pending, and are not reached if line 162 throws (lost)
PuSettles(lost) == pu.st = "pending" /\ ~lost

\* lines 156-164: the async executor resumes after await userCleanupHandler()
CleanupResumed ==
    /\ NextJob("cleanupResumed")
    /\ cleanupTimer' = ResumedTimer
    /\ LET lost == cleanup.st = "rejected" /\ cleanup.v = Nullish
           settles == PuSettles(lost)
       IN  /\ pu' = IF ~settles THEN pu
                    ELSE IF cleanup.st = "fulfilled" THEN Fulfilled(None)
                    ELSE Rejected(cleanup.v)
           /\ unhandled' = (unhandled \/ lost)
           /\ microtasks' = Tail(microtasks)
                            \o (IF settles THEN <<"cleanupCaught">> ELSE <<>>)
    /\ UNCHANGED <<optVars, invVars, timerVars, checkCount, raceVars, cleanup,
                   cleanupDue, puc, pclSubscribed, handlerVars, now>>
    /\ UNCHANGED <<lastRemaining, checks, triggerCheck, throwCheck, sourceThrown, sourceCalls,
                   checkLogged,
                   cleanupCalls, handlerCalls, taskSettledAt, lateCheck, overlap>>

\* lines 150-153: the cleanup budget expires
CleanupTimeout ==
    /\ Looping
    /\ microtasks = <<>>
    /\ cleanupTimer = "armed"
    /\ now >= cleanupDue
    /\ cleanupTimer' = "fired"
    /\ pu' = IF pu.st = "pending" THEN Rejected(CleanupExceededError) ELSE pu
    /\ microtasks' = IF pu.st = "pending" THEN <<"cleanupCaught">> ELSE <<>>
    /\ UNCHANGED <<optVars, invVars, timerVars, checkCount, raceVars, cleanup,
                   cleanupDue, puc, pclSubscribed, handlerVars, now, obsVars>>

\* lines 165-168: .catch(...) turns either outcome of the cleanup into a
\* fulfilled userCleanupPromise
CleanupCaught ==
    /\ NextJob("cleanupCaught")
    /\ puc' = Fulfilled(None)
    /\ microtasks' = Tail(microtasks)
                     \o (IF pclSubscribed THEN <<"cleanupDone">> ELSE <<>>)
    /\ UNCHANGED <<optVars, invVars, timerVars, checkCount, raceVars, cleanup,
                   cleanupTimer, cleanupDue, pu, pclSubscribed, handlerVars, now,
                   obsVars>>

\* a callback that does not return userCleanupPromise: cleanupPromise is
\* fulfilled at once
CleanupChainNoReturn ==
    /\ NextJob("cleanupChain")
    /\ microtasks' = Append(Tail(microtasks), "systemHandler")
    /\ UNCHANGED <<optVars, invVars, timerVars, checkCount, raceVars, cleanupVars,
                   handlerVars, now, obsVars>>

\* line 170: the callback () => userCleanupPromise returns a promise, which
\* cleanupPromise has to adopt
CleanupChain ==
    /\ NextJob("cleanupChain")
    /\ microtasks' = Append(Tail(microtasks), "cleanupAdopt")
    /\ UNCHANGED <<optVars, invVars, timerVars, checkCount, raceVars, cleanupVars,
                   handlerVars, now, obsVars>>

\* a cleanupPromise that does not wait for userCleanupPromise
AdoptJobsEager == <<"cleanupDone">>

\* line 170: cleanupPromise follows userCleanupPromise; it is fulfilled at
\* once only if that one already is
AdoptJobs == IF puc.st = "fulfilled" THEN <<"cleanupDone">> ELSE <<>>

\* line 170: cleanupPromise subscribes to userCleanupPromise
CleanupAdopt ==
    /\ NextJob("cleanupAdopt")
    /\ pclSubscribed' = TRUE
    /\ microtasks' = Tail(microtasks) \o AdoptJobs
    /\ UNCHANGED <<optVars, invVars, timerVars, checkCount, raceVars, cleanup,
                   cleanupTimer, cleanupDue, pu, puc, handlerVars, now, obsVars>>

\* lines 170-175: cleanupPromise is fulfilled and its .then callback queued
CleanupDone ==
    /\ NextJob("cleanupDone")
    /\ microtasks' = Append(Tail(microtasks), "systemHandler")
    /\ UNCHANGED <<optVars, invVars, timerVars, checkCount, raceVars, cleanupVars,
                   handlerVars, now, obsVars>>

\* lines 175-177: the async callback calls timeoutHandler() and awaits it
SystemHandler ==
    /\ NextJob("systemHandler")
    /\ \E hb \in CallOutcomes({Val("handlerValue")}, HandlerErrors) :
         /\ handler' = PromiseOf(hb)
         /\ pa' = IF hb.t = "throws" THEN Rejected(hb.v) ELSE pa
         /\ microtasks' = Tail(microtasks)
                          \o (IF hb.t \in {"fulfilled", "rejected"}
                                THEN <<"handlerResumed">> ELSE <<>>)
                          \o <<"handlerAdopt">>
    /\ handlerCalls' = handlerCalls + 1
    /\ overlap' = (overlap \/ cleanup.st = "pending")
    /\ UNCHANGED <<optVars, invVars, timerVars, checkCount, raceVars, cleanupVars,
                   phSubscribed, ph, phc, now>>
    /\ UNCHANGED <<lastRemaining, checks, triggerCheck, throwCheck, sourceThrown, sourceCalls,
                   checkLogged,
                   cleanupCalls, taskSettledAt, lateCheck, unhandled>>

\* lines 177-181: the async callback resumes after await timeoutHandler()
HandlerResumed ==
    /\ NextJob("handlerResumed")
    /\ IF handler.st = "fulfilled"
         THEN /\ p2' = RejectP2(TimeoutError)
              /\ pa' = Fulfilled(None)
              /\ microtasks' = Tail(microtasks) \o RejectP2Jobs
         ELSE /\ pa' = Rejected(handler.v)
              /\ microtasks' = Tail(microtasks)
                               \o (IF phSubscribed THEN <<"handlerRejected">> ELSE <<>>)
              /\ UNCHANGED p2
    /\ UNCHANGED <<optVars, invVars, timerVars, checkCount, task, p1, race,
                   cleanupVars, handler, phSubscribed, ph, phc, now, obsVars>>

\* line 175: the .then promise subscribes to the async callback's promise
HandlerAdopt ==
    /\ NextJob("handlerAdopt")
    /\ phSubscribed' = TRUE
    /\ microtasks' = Tail(microtasks)
                     \o (IF pa.st = "rejected" THEN <<"handlerRejected">> ELSE <<>>)
    /\ UNCHANGED <<optVars, invVars, timerVars, checkCount, raceVars, cleanupVars,
                   handler, pa, ph, phc, now, obsVars>>

\* line 175: the .then promise is rejected as the async callback's was
HandlerRejected ==
    /\ NextJob("handlerRejected")
    /\ ph' = Rejected(pa.v)
    /\ microtasks' = Append(Tail(microtasks), "handlerCaught")
    /\ UNCHANGED <<optVars, invVars, timerVars, checkCount, raceVars, cleanupVars,
                   handler, pa, phSubscribed, phc, now, obsVars>>

\* lines 183-189: .catch(handlerError => ...)
HandlerCaught ==
    /\ NextJob("handlerCaught")
    /\ IF ph.v = Nullish
         THEN \* line 184: handlerError.message throws
           /\ phc' = Rejected(TypeError)
           /\ microtasks' = Append(Tail(microtasks), "checkResumed")
           /\ UNCHANGED p2
         ELSE
           /\ phc' = Fulfilled(None)
           /\ p2' = RejectP2(HandlerFailedError(ph.v))
           /\ microtasks' = Tail(microtasks) \o RejectP2Jobs
    /\ UNCHANGED <<optVars, invVars, timerVars, checkCount, task, p1, race,
                   cleanupVars, handler, pa, phSubscribed, ph, now, obsVars>>

\* lines 174, 191-198: await of the rejected chain throws into the catch
\* block of checkTimeout
CheckResumed ==
    /\ NextJob("checkResumed")
    /\ intervalId' = ClearedId
    /\ intervalActive' = ClearedActive
    /\ clearCount' = clearCount + ClearCalls
    /\ p2' = RejectP2(phc.v)
    /\ microtasks' = Tail(microtasks) \o RejectP2Jobs
    /\ UNCHANGED <<optVars, invVars, intervalDue, checkCount, task, p1, race,
                   cleanupVars, handlerVars, now, obsVars>>

\* lines 216-219: .catch of the initial check
InitialCheckCatch ==
    /\ NextJob("initialCheckCatch")
    /\ p2' = RejectP2(TypeError)
    /\ microtasks' = Tail(microtasks) \o RejectP2Jobs
    /\ UNCHANGED <<optVars, invVars, timerVars, checkCount, task, p1, race,
                   cleanupVars, handlerVars, now, obsVars>>

\* lines 204-211: .catch of a periodic check
TickCatch ==
    /\ NextJob("tickCatch")
    /\ intervalId' = ClearedId
    /\ intervalActive' = ClearedActive
    /\ clearCount' = clearCount + ClearCalls
    /\ p2' = RejectP2(TypeError)
    /\ microtasks' = Tail(microtasks) \o RejectP2Jobs
    /\ UNCHANGED <<optVars, invVars, intervalDue, checkCount, task, p1, race,
                   cleanupVars, handlerVars, now, obsVars>>

\* an interval that fires every other period
NextDueDoubled == intervalDue + 2 * checkIntervalMs

\* line 212: setInterval re-arms itself checkIntervalMs after each firing
NextDue == intervalDue + checkIntervalMs

\* lines 203-212: the interval fires
IntervalTick ==
    /\ Looping
    /\ microtasks = <<>>
    /\ intervalActive
    /\ now >= intervalDue
    /\ \E src \in SourceCall, cb \in CallOutcomes({None}, CleanupErrors) :
         checkTimeout(src, cb, "tickCatch")
    /\ intervalDue' = NextDue
    /\ UNCHANGED pc

\* ------------------------------------------------------ the environment
\* the task's promise settles
TaskSettles ==
    /\ Looping
    /\ task.st = "pending"
    /\ \E x \in {Fulfilled(v) : v \in TaskResults} \cup {Rejected(e) : e \in TaskErrors} :
         task' = x
    /\ microtasks' = Append(microtasks, "taskThen")
    /\ taskSettledAt' = [settled |-> TRUE, triggered |-> triggered, threw |-> checkThrew]
    /\ UNCHANGED <<optVars, invVars, timerVars, checkCount, p1, p2, race,
                   cleanupVars, handlerVars, now>>
    /\ UNCHANGED <<lastRemaining, checks, triggerCheck, throwCheck, sourceThrown, sourceCalls,
                   checkLogged,
                   cleanupCalls, handlerCalls, lateCheck, overlap, unhandled>>

\* the cleanup handler's promise settles
CleanupSettles ==
    /\ Looping
    /\ cleanup.st = "pending"
    /\ \E x \in {Fulfilled(None)} \cup {Rejected(e) : e \in CleanupErrors} :
         cleanup' = x
    /\ microtasks' = Append(microtasks, "cleanupResumed")
    /\ UNCHANGED <<optVars, invVars, timerVars, checkCount, raceVars, cleanupTimer,
                   cleanupDue, pu, puc, pclSubscribed, handlerVars, now, obsVars>>

\* the timeout handler's promise settles
HandlerSettles ==
    /\ Looping
    /\ handler.st = "pending"
    /\ \E x \in {Fulfilled(Val("handlerValue"))} \cup {Rejected(e) : e \in HandlerErrors} :
         handler' = x
    /\ microtasks' = Append(microtasks, "handlerResumed")
    /\ UNCHANGED <<optVars, invVars, timerVars, checkCount, raceVars, cleanupVars,
                   pa, phSubscribed, ph, phc, now, obsVars>>

\* time passes while the event loop is idle; a due timer fires first
AdvanceTime ==
    /\ Looping
    /\ microtasks = <<>>
    /\ now < MaxTime \/ (cleanupTimer = "armed" /\ now < cleanupDue)
    /\ intervalActive => now < intervalDue
    /\ cleanupTimer = "armed" => now < cleanupDue
    /\ now' = now + 1
    /\ UNCHANGED <<optVars, invVars, timerVars, checkCount, raceVars, cleanupVars,
                   handlerVars, microtasks, obsVars>>

Next ==
    \/ Invoke
    \/ CallTask
    \/ SetupInterval
    \/ InitialCheck
    \/ Subscribe
    \/ TaskThen
    \/ RaceP1
    \/ RaceP2
    \/ AwaitRace
    \/ CleanupResumed
    \/ CleanupTimeout
    \/ CleanupCaught
    \/ CleanupChain
    \/ CleanupAdopt
    \/ CleanupDone
    \/ SystemHandler
    \/ HandlerResumed
    \/ HandlerAdopt
    \/ HandlerRejected
    \/ HandlerCaught
    \/ CheckResumed
    \/ InitialCheckCatch
    \/ TickCatch
    \/ IntervalTick
    \/ TaskSettles
    \/ CleanupSettles
    \/ HandlerSettles
    \/ AdvanceTime

Spec == Init /\ [][Next]_vars

\* what the runtime does by itself: the synchronous code runs on, queued
\* jobs are run, due timers fire and time passes; the settlement of the
\* user's promises is left to the environment
SchedulerStep ==
    \/ Invoke
    \/ CallTask
    \/ SetupInterval
    \/ InitialCheck
    \/ Subscribe
    \/ TaskThen
    \/ RaceP1
    \/ RaceP2
    \/ AwaitRace
    \/ CleanupResumed
    \/ CleanupTimeout
    \/ CleanupCaught
    \/ CleanupChain
    \/ CleanupAdopt
    \/ CleanupDone
    \/ SystemHandler
    \/ HandlerResumed
    \/ HandlerAdopt
    \/ HandlerRejected
    \/ HandlerCaught
    \/ CheckResumed
    \/ InitialCheckCatch
    \/ TickCatch
    \/ IntervalTick
    \/ AdvanceTime

\* the event loop never stops while it has something to do
FairSpec == Init /\ [][Next]_vars /\ WF_vars(SchedulerStep)

\* ------------------------------------------------------------ typing
TypeOK ==
    /\ pc \in {"start", "callTask", "executor", "initialCheck", "subscribe", "awaiting", "done"}
    /\ intervalId \in {"null", "timer"}
    /\ intervalActive \in BOOLEAN
    /\ checkCount \in 0..9
    /\ clearCount \in Nat
    /\ sourceCalls \in Nat
    /\ checkLogged \in BOOLEAN
    /\ cleanupTimer \in {"none", "armed", "cleared", "fired"}
    /\ now \in 0..(MaxTime + cleanupTimeMs)
    /\ cleanupCalls \in 0..1
    /\ handlerCalls \in 0..1
    /\ Len(microtasks) <= 6

\* ============================================================== claims

\* -------------------------------------------------------------------- C1
\* C1: whenever the invocation has settled (with the task's result, a
\* timeout error, the task's error or a check error) its check interval is
\* not active, and no deadline check has run after the settlement.
TimerStoppedAfterSettlement ==
    /\ invSettled => ~intervalActive /\ intervalId = "null"
    /\ ~lateCheck

\* the invocation settled with the task's error after periodic checks had
\* run, and time went on past the moment the next check was due
TimerStoppedWitness ==
    /\ invSettled
    /\ result.st = "rejected"
    /\ task.st = "rejected"
    /\ result.v = task.v
    /\ checks >= 2
    /\ now > intervalDue

\* -------------------------------------------------------------------- C2
\* C2 as stated: a task that resolves before any check has observed
\* remaining <= safetyMarginMs makes the invocation resolve with exactly the
\* task's value, the timer being stopped at settlement (stated here for a
\* task that also resolves before any check has thrown).
FastPathAsStated ==
    (invSettled /\ task.st = "fulfilled" /\ ~taskSettledAt.triggered
       /\ ~taskSettledAt.threw)
        => (result.st = "fulfilled" /\ result.v = task.v /\ ~intervalActive)

\* C2 amended: the same, for invocations none of whose deadline checks
\* throws (a check error settles the invocation first, even when the task
\* had resolved before the initial check).
FastPath ==
    (invSettled /\ task.st = "fulfilled" /\ ~taskSettledAt.triggered /\ ~checkThrew)
        => (result.st = "fulfilled" /\ result.v = task.v /\ ~intervalActive)

\* the task resolved with its second value after periodic checks had run,
\* none of which triggered, and the invocation resolved with that value
FastPathWitness ==
    /\ invSettled
    /\ task = Fulfilled(Val("result2"))
    /\ result.st = "fulfilled"
    /\ checks >= 2
    /\ ~triggered
    /\ ~checkThrew

\* -------------------------------------------------------------------- C3
\* C3: when the first check finds remaining <= safetyMarginMs, the task
\* stays pending and the timeout handler has completed successfully, the
\* invocation is rejected with an error whose isLambdaTimeout is true and
\* that has no handlerError, and the timeout handler was called once.
TimeoutPath ==
    (triggerCheck = 1 /\ task.st = "pending" /\ handler.st = "fulfilled"
       /\ microtasks = <<>>)
        => /\ invSettled
           /\ result.st = "rejected"
           /\ result.v.isLambdaTimeout
           /\ result.v.handlerError = "unset"
           /\ handlerCalls = 1

\* the initial check triggered, the cleanup handler finished, the timeout
\* handler returned a value and the invocation was rejected
TimeoutPathWitness ==
    /\ triggerCheck = 1
    /\ task.st = "pending"
    /\ cleanup.st = "fulfilled"
    /\ handler = Fulfilled(Val("handlerValue"))
    /\ invSettled
    /\ result.st = "rejected"
    /\ result.v.isLambdaTimeout

\* -------------------------------------------------------------------- C4
\* C4: once a check has triggered shutdown the invocation neither resolves
\* with the task's result nor rejects with the task's own error.
ShutdownOnlyTimesOut ==
    (invSettled /\ triggered)
        => /\ result.st # "fulfilled"
           /\ ~(result.st = "rejected" /\ task.st = "rejected" /\ result.v = task.v)

\* -------------------------------------------------------------------- C5
\* C5: an invocation that resolved with the task's result has called
\* neither the cleanup handler nor the timeout handler, at any time.
TaskSuccessRunsNoHandler ==
    (invSettled /\ result.st = "fulfilled")
        => (cleanupCalls = 0 /\ handlerCalls = 0)

\* -------------------------------------------------------------------- C6
cleanupFailed == cleanup.st \in {"rejected", "threw"} \/ cleanupTimer = "fired"

\* C6: however the cleanup handler fails (it rejects or throws with any
\* value, or overruns cleanupTimeMs), the timeout handler is still called;
\* if that one succeeds the invocation's rejection is a clean timeout, and
\* the cleanup's failure is never the rejection reason.
CleanupIsolation ==
    /\ (cleanupFailed /\ Looping /\ microtasks = <<>>) => handlerCalls = 1
    /\ (cleanupFailed /\ handler.st = "fulfilled" /\ task.st = "pending"
          /\ microtasks = <<>>)
         => /\ result.st = "rejected"
            /\ result.v.isLambdaTimeout
            /\ result.v.handlerError = "unset"
    /\ cleanupCalls > 0 => result.v \notin CleanupErrors \cup {CleanupExceededError}

\* -------------------------------------------------------------------- C7
\* C7 as stated: the cleanup handler has completed before the timeout
\* handler begins, and the two never execute at the same time.
CleanupBeforeHandlerAsStated ==
    /\ ~overlap
    /\ ~(cleanup.st = "pending" /\ handler.st = "pending")

\* C7 amended: before the timeout handler begins, the cleanup handler has
\* been called and has completed or has exhausted its cleanupTimeMs budget;
\* the two execute at the same time only after the budget has expired.
CleanupBeforeHandler ==
    (hasCleanup /\ handlerCalls > 0)
        => /\ cleanupCalls = 1
           /\ pu.st # "pending"
           /\ (overlap \/ cleanup.st = "pending") => cleanupTimer = "fired"

\* the cleanup handler overran its budget and the timeout handler runs
\* while it is still pending
CleanupBeforeHandlerWitness ==
    /\ hasCleanup
    /\ handlerCalls = 1
    /\ handler.st = "pending"
    /\ cleanup.st = "pending"
    /\ cleanupTimer = "fired"

\* -------------------------------------------------------------------- C8
\* C8: whenever shutdown was triggered and the timeout handler threw or
\* rejected, with any value, the invocation is rejected with an error that
\* has isLambdaTimeout true and carries that value as handlerError (stated
\* here for a task that is still pending).
HandlerFailureSurfaced ==
    (triggered /\ handler.st \in {"rejected", "threw"} /\ task.st = "pending"
       /\ microtasks = <<>>)
        => /\ invSettled
           /\ result.st = "rejected"
           /\ result.v.isLambdaTimeout
           /\ result.v.handlerError = handler.v.kind

\* -------------------------------------------------------------------- C9
\* C9: when the task rejects before shutdown has been triggered (and no
\* check has thrown), the invocation rejects with exactly the task's
\* reason, the timer is cancelled and neither handler is called.
TaskErrorPath ==
    (invSettled /\ task.st = "rejected" /\ ~taskSettledAt.triggered /\ ~checkThrew)
        => /\ result = Rejected(task.v)
           /\ ~result.v.isLambdaTimeout
           /\ ~intervalActive
           /\ cleanupCalls = 0
           /\ handlerCalls = 0

\* ------------------------------------------------------------------- C10
\* C10: when the remaining-time computation of a check throws while the
\* task is unsettled, the timer is cancelled, no further check runs, the
\* invocation rejects with exactly the thrown value, not marked as a
\* timeout, and neither handler is called.
CheckErrorPath ==
    (checkThrew /\ Looping /\ microtasks = <<>>
       /\ (task.st = "pending" \/ taskSettledAt.threw))
        => /\ invSettled
           /\ result = Rejected(sourceThrown)
           /\ ~result.v.isLambdaTimeout
           /\ ~intervalActive
           /\ checks = throwCheck
           /\ cleanupCalls = 0
           /\ handlerCalls = 0

\* ------------------------------------------------------------------- C11
\* the messages of the three configuration errors of lines 74-85
ConfigMessages == {"getRemainingTimeInMillis is required",
                   "Timeout handler function is required",
                   "User cleanup handler must be a function if provided"}

\* the invocation has failed its validation, or is about to, and nothing
\* else has happened: no task, no timer, no check, no call of the source
RejectedBeforeRacing ==
    /\ pc \in {"start", "done"}
    /\ pc = "done" => /\ result.st = "rejected"
                      /\ result.v.kind \in ConfigMessages
                      /\ ~result.v.isLambdaTimeout
    /\ task = NotCalled
    /\ intervalId = "null" /\ ~intervalActive /\ clearCount = 0
    /\ checks = 0
    /\ sourceCalls = 0
    /\ cleanupCalls = 0 /\ handlerCalls = 0

timerStarted == pc = "initialCheck" \/ checks > 0

\* C13: clearInterval is never called twice in an invocation; once the
\* invocation has settled it has been called exactly once if the timer was
\* started, whatever the exit path, and the handle is released; it is not
\* called at all while no timer was started.
ExactlyOnceCancellation ==
    /\ clearCount <= 1
    /\ ~timerStarted => clearCount = 0
    /\ (invSettled /\ timerStarted)
         => clearCount = 1 /\ intervalId = "null" /\ ~intervalActive
    /\ clearCount = 1 => intervalId = "null" /\ ~intervalActive

\* the trigger cancelled the timer, and the release block then found the
\* handle already released
ExactlyOnceCancellationWitness ==
    /\ invSettled
    /\ triggered
    /\ result.st = "rejected" /\ result.v.isLambdaTimeout
    /\ clearCount = 1

\* ------------------------------------------------------------------- C14
\* C14: the timeout handler and the cleanup handler are each called at most
\* once in an invocation, and only after a check has triggered shutdown;
\* the cleanup handler only if one was given.
HandlersAtMostOnce ==
    /\ handlerCalls <= 1
    /\ cleanupCalls <= 1
    /\ (handlerCalls > 0 \/ cleanupCalls > 0) => triggered
    /\ cleanupCalls > 0 => hasCleanup
    /\ handlerCalls = 0 <=> handler = NotCalled
    /\ cleanupCalls = 0 <=> cleanup = NotCalled

\* the cleanup handler was abandoned at the end of its budget, the timeout
\* handler ran, and the cleanup handler's promise settled afterwards
HandlersAtMostOnceWitness ==
    /\ cleanupTimer = "fired"
    /\ cleanup.st \in {"fulfilled", "rejected"}
    /\ handlerCalls = 1
    /\ cleanupCalls = 1
    /\ microtasks = <<>>

\* ------------------------------------------------------------------- C15
\* C15: in an invocation that has settled after a check triggered shutdown,
\* the timeout handler has been called and its promise has settled.
ShutdownBeforeSettlement ==
    (invSettled /\ triggered)
        => /\ handlerCalls = 1
           /\ handler.st \in {"fulfilled", "rejected", "threw"}

\* ------------------------------------------------------------------- C16
\* C16: an invocation that was given a cleanup handler and has ended, with
\* the task's result or with a timeout, has called the cleanup handler.
CleanupAlwaysRuns ==
    (invSettled /\ hasCleanup /\ microtasks = <<>>
       /\ (result.st = "fulfilled" \/ result.v.isLambdaTimeout))
        => cleanupCalls = 1

\* ------------------------------------------------------------------- C17
\* Several invocations of one wrapper.  In this specification every variable
\* of an invocation holds one value per invocation (a function over
\* Invocations), the variables declared in the wrapper's body one value per
\* binding, and the runtime's timers are indexed by their handle.  Each
\* synchronous block and each callback is one step; the shutdown sequence is
\* reduced to the calls of the two handlers and the settlement of the
\* timeout handler.
Invocations == {1, 2}

\* how long the clock runs with several invocations
MaxTimeMulti == 3

\* intervalId = null in the per-handle encoding
NoHandle == 0

\* what the source reports when the fallback baseline is taken
MultiBaseline == safetyMarginMs + 2

\* what the source can do in a live check
MultiSourceOutcomes ==
    [t : {"returns"}, n : {safetyMarginMs, safetyMarginMs + 1}, e : {None}]
    \cup [t : {"throws"}, n : {0}, e : {Val("sourceError")}]

\* what the task of invocation i resolves with
TaskResultOf(i) == IF i = 1 THEN Val("result1") ELSE Val("result2")

\* bindings declared once, in the scope of createTimeoutWrapper
CellShared(i) == 1

\* lines 93-97, 115: intervalId, startTime, initialTimeRemaining and
\* checkCount are declared inside the returned function, so that every
\* invocation gets bindings of its own
Cell(i) == i

\* variables of the single-invocation specification that play no part here
singleVars == <<getRemainingTimeInMillis, timeoutHandler, cleanup, cleanupTimer,
                cleanupDue, pu, puc, pclSubscribed, pa, phSubscribed, ph, phc,
                microtasks, sourceThrown, sourceCalls, checkLogged, taskSettledAt,
                lateCheck,
                overlap, unhandled>>

InitMulti ==
    /\ isUsingFallbackTimer \in BOOLEAN
    /\ getRemainingTimeInMillis = "function"
    /\ timeoutHandler = "function"
    /\ userCleanupHandler = "function"
    /\ pc = [i \in Invocations |-> "start"]
    /\ result = [i \in Invocations |-> Pending]
    /\ startTime = [c \in Invocations |-> -1]
    /\ initialTimeRemaining = [c \in Invocations |-> -1]
    /\ intervalId = [c \in Invocations |-> NoHandle]
    /\ intervalActive = [h \in Invocations |-> FALSE]
    /\ intervalDue = [h \in Invocations |-> 0]
    /\ clearCount = [i \in Invocations |-> 0]
    /\ checkCount = [c \in Invocations |-> 0]
    /\ task = [i \in Invocations |-> NotCalled]
    /\ p1 = [i \in Invocations |-> Pending]
    /\ p2 = [i \in Invocations |-> Pending]
    /\ race = [i \in Invocations |-> Pending]
    /\ handler = [i \in Invocations |-> NotCalled]
    /\ now = 0
    /\ lastRemaining = [i \in Invocations |-> -1]
    /\ checks = [i \in Invocations |-> 0]
    /\ triggerCheck = [i \in Invocations |-> 0]
    /\ throwCheck = [i \in Invocations |-> 0]
    /\ cleanupCalls = [i \in Invocations |-> 0]
    /\ handlerCalls = [i \in Invocations |-> 0]
    /\ cleanup = NotCalled
    /\ cleanupTimer = "none"
    /\ cleanupDue = 0
    /\ pu = Pending
    /\ puc = Pending
    /\ pclSubscribed = FALSE
    /\ pa = Pending
    /\ phSubscribed = FALSE
    /\ ph = Pending
    /\ phc = Pending
    /\ microtasks = <<>>
    /\ sourceThrown = None
    /\ sourceCalls = 0
    /\ checkLogged = FALSE
    /\ taskSettledAt = [settled |-> FALSE, triggered |-> FALSE, threw |-> FALSE]
    /\ lateCheck = FALSE
    /\ overlap = FALSE
    /\ unhandled = FALSE

\* no synchronous block is under way
Idle == \A j \in Invocations : pc[j] # "initialCheck"

\* Promise.race of invocation i after promise p has settled
RaceAfter(i, p) == IF race[i].st = "pending" THEN p ELSE race[i]

\* if (intervalId) { clearInterval(intervalId); intervalId = null } as run by
\* invocation i: it cancels the timer whose handle its binding holds
ClearIntervalOf(i) ==
    LET h == intervalId[Cell(i)] IN
    /\ intervalId' = [intervalId EXCEPT ![Cell(i)] = NoHandle]
    /\ intervalActive' = IF h = NoHandle THEN intervalActive
                         ELSE [intervalActive EXCEPT ![h] = FALSE]
    /\ clearCount' = IF h = NoHandle THEN clearCount
                     ELSE [clearCount EXCEPT ![i] = @ + 1]

\* lines 74-212: invocation i validates, takes the fallback baseline, calls
\* fn() and starts its timer; the invocations are numbered in the order of
\* their calls
WrapperCall(i) ==
    /\ Idle
    /\ pc[i] = "start"
    /\ \A j \in Invocations : j < i => pc[j] # "start"
    /\ pc' = [pc EXCEPT ![i] = "initialCheck"]
    /\ startTime' = [startTime EXCEPT
                       ![Cell(i)] = IF isUsingFallbackTimer THEN now ELSE -1]
    /\ initialTimeRemaining' = [initialTimeRemaining EXCEPT
                       ![Cell(i)] = IF isUsingFallbackTimer THEN MultiBaseline ELSE -1]
    /\ task' = [task EXCEPT ![i] = Pending]
    /\ checkCount' = [checkCount EXCEPT ![Cell(i)] = 0]
    /\ intervalId' = [intervalId EXCEPT ![Cell(i)] = i]
    /\ intervalActive' = [intervalActive EXCEPT ![i] = TRUE]
    /\ intervalDue' = [intervalDue EXCEPT ![i] = now + checkIntervalMs]
    /\ UNCHANGED <<isUsingFallbackTimer, userCleanupHandler, singleVars, result,
                   clearCount, p1, p2, race, handler, now, lastRemaining, checks,
                   triggerCheck, throwCheck, cleanupCalls, handlerCalls>>

\* lines 118-199: one run of checkTimeout in invocation i
checkTimeoutOf(i, src) ==
    LET c == Cell(i)
        remaining == IF isUsingFallbackTimer
                       THEN [t |-> "returns",
                             n |-> initialTimeRemaining[c] - (now - startTime[c]),
                             e |-> None]
                       ELSE src
        n == checks[i] + 1
    IN
    /\ checks' = [checks EXCEPT ![i] = n]
    /\ IF remaining.t = "throws"
         THEN \* lines 191-197
           /\ throwCheck' = [throwCheck EXCEPT ![i] = n]
           /\ ClearIntervalOf(i)
           /\ p2' = [p2 EXCEPT ![i] = IF @.st = "pending" THEN Rejected(remaining.e) ELSE @]
           /\ race' = [race EXCEPT ![i] = RaceAfter(i, p2'[i])]
           /\ UNCHANGED <<checkCount, lastRemaining, triggerCheck, cleanupCalls>>
         ELSE
           /\ checkCount' = [checkCount EXCEPT ![c] = (@ + 1) % 10]
           /\ lastRemaining' = [lastRemaining EXCEPT ![i] = remaining.n]
           /\ UNCHANGED <<throwCheck, p2, race>>
           /\ IF Breached(remaining.n)
                THEN \* lines 134-171
                  /\ triggerCheck' = [triggerCheck EXCEPT ![i] = n]
                  /\ ClearIntervalOf(i)
                  /\ cleanupCalls' = [cleanupCalls EXCEPT
                                        ![i] = IF hasCleanup THEN @ + 1 ELSE @]
                ELSE UNCHANGED <<triggerCheck, intervalId, intervalActive,
                                 clearCount, cleanupCalls>>
    /\ UNCHANGED <<isUsingFallbackTimer, userCleanupHandler, singleVars, result,
                   startTime, initialTimeRemaining, task, p1, handler, now,
                   handlerCalls>>

\* lines 214-219: the initial check ends the synchronous block
FirstCheck(i) ==
    /\ pc[i] = "initialCheck"
    /\ \E src \in MultiSourceOutcomes : checkTimeoutOf(i, src)
    /\ pc' = [pc EXCEPT ![i] = "awaiting"]
    /\ UNCHANGED intervalDue

\* lines 203-212: the timer with handle h fires; its callback belongs to the
\* invocation that created it
Tick(h) ==
    /\ Idle
    /\ intervalActive[h]
    /\ now >= intervalDue[h]
    /\ \E src \in MultiSourceOutcomes : checkTimeoutOf(h, src)
    /\ intervalDue' = [intervalDue EXCEPT ![h] = @ + checkIntervalMs]
    /\ UNCHANGED pc

\* the task's promise of invocation i settles
TaskSettled(i) ==
    /\ Idle
    /\ task[i].st = "pending"
    /\ \E o \in {Fulfilled(TaskResultOf(i)), Rejected(Val("taskError"))} :
         task' = [task EXCEPT ![i] = o]
    /\ UNCHANGED <<isUsingFallbackTimer, userCleanupHandler, singleVars, pc, result,
                   startTime, initialTimeRemaining, intervalId, intervalActive,
                   intervalDue, clearCount, checkCount, p1, p2, race, handler, now,
                   lastRemaining, checks, triggerCheck, throwCheck, cleanupCalls,
                   handlerCalls>>

\* lines 103-111: the .then callback of invocation i, and the race it feeds
ThenCallback(i) ==
    /\ Idle
    /\ task[i].st \in {"fulfilled", "rejected"}
    /\ p1[i].st = "pending"
    /\ p1' = [p1 EXCEPT ![i] = task[i]]
    /\ race' = [race EXCEPT ![i] = RaceAfter(i, task[i])]
    /\ IF task[i].st = "fulfilled"
         THEN ClearIntervalOf(i)
         ELSE UNCHANGED <<intervalId, intervalActive, clearCount>>
    /\ UNCHANGED <<isUsingFallbackTimer, userCleanupHandler, singleVars, pc, result,
                   startTime, initialTimeRemaining, intervalDue, checkCount, task,
                   p2, handler, now, lastRemaining, checks, triggerCheck,
                   throwCheck, cleanupCalls, handlerCalls>>

\* lines 174-177: the shutdown sequence of invocation i reaches timeoutHandler()
RunTimeoutHandler(i) ==
    /\ Idle
    /\ triggerCheck[i] > 0
    /\ handler[i] = NotCalled
    /\ handler' = [handler EXCEPT ![i] = Pending]
    /\ handlerCalls' = [handlerCalls EXCEPT ![i] = @ + 1]
    /\ UNCHANGED <<isUsingFallbackTimer, userCleanupHandler, singleVars, pc, result,
                   startTime, initialTimeRemaining, intervalId, intervalActive,
                   intervalDue, clearCount, checkCount, task, p1, p2, race, now,
                   lastRemaining, checks, triggerCheck, throwCheck, cleanupCalls>>

\* lines 178-181: timeoutHandler() of invocation i has resolved
TimeoutHandlerDone(i) ==
    /\ Idle
    /\ handler[i].st = "pending"
    /\ handler' = [handler EXCEPT ![i] = Fulfilled(Val("handlerValue"))]
    /\ p2' = [p2 EXCEPT ![i] = IF @.st = "pending" THEN Rejected(TimeoutError) ELSE @]
    /\ race' = [race EXCEPT ![i] = RaceAfter(i, p2'[i])]
    /\ UNCHANGED <<isUsingFallbackTimer, userCleanupHandler, singleVars, pc, result,
                   startTime, initialTimeRemaining, intervalId, intervalActive,
                   intervalDue, clearCount, checkCount, task, p1, now,
                   lastRemaining, checks, triggerCheck, throwCheck, cleanupCalls,
                   handlerCalls>>

\* lines 222-229: the await of invocation i resumes, finally runs, it settles
Finally(i) ==
    /\ Idle
    /\ pc[i] = "awaiting"
    /\ race[i].st # "pending"
    /\ ClearIntervalOf(i)
    /\ result' = [result EXCEPT ![i] = race[i]]
    /\ pc' = [pc EXCEPT ![i] = "done"]
    /\ UNCHANGED <<isUsingFallbackTimer, userCleanupHandler, singleVars, startTime,
                   initialTimeRemaining, intervalDue, checkCount, task, p1, p2,
                   race, handler, now, lastRemaining, checks, triggerCheck,
                   throwCheck, cleanupCalls, handlerCalls>>

\* time passes; a timer that is due fires first
Elapse ==
    /\ Idle
    /\ now < MaxTimeMulti
    /\ \A h \in Invocations : intervalActive[h] => now < intervalDue[h]
    /\ now' = now + 1
    /\ UNCHANGED <<isUsingFallbackTimer, userCleanupHandler, singleVars, pc, result,
                   startTime, initialTimeRemaining, intervalId, intervalActive,
                   intervalDue, clearCount, checkCount, task, p1, p2, race, handler,
                   lastRemaining, checks, triggerCheck, throwCheck, cleanupCalls,
                   handlerCalls>>

NextMulti ==
    \/ \E i \in Invocations : WrapperCall(i)
    \/ \E i \in Invocations : FirstCheck(i)
    \/ \E h \in Invocations : Tick(h)
    \/ \E i \in Invocations : TaskSettled(i)
    \/ \E i \in Invocations : ThenCallback(i)
    \/ \E i \in Invocations : RunTimeoutHandler(i)
    \/ \E i \in Invocations : TimeoutHandlerDone(i)
    \/ \E i \in Invocations : Finally(i)
    \/ Elapse

SpecMulti == InitMulti /\ [][NextMulti]_vars

\* what invocation i's own events say about its timer: it runs from the
\* call until the invocation's own success callback, trigger, check error
\* or settlement
OwnTimerRuns(i) ==
    /\ pc[i] = "awaiting"
    /\ triggerCheck[i] = 0
    /\ throwCheck[i] = 0
    /\ p1[i].st # "fulfilled"

\* C17: with two overlapping invocations of one wrapper, each invocation's
\* timer runs exactly as long as its own events say, its check counter
\* counts its own checks, its fallback checks compute from its own baseline
\* (the k-th check sees the baseline less (k - 1) * checkIntervalMs), its
\* handlers are called at most once and only after its own trigger, and it
\* settles with its own task's outcome, its own timeout or its own check
\* error.
NoSharedState ==
    \A i \in Invocations :
      /\ pc[i] # "initialCheck" => (intervalActive[i] <=> OwnTimerRuns(i))
      /\ intervalActive[i] => intervalId[i] = i
      /\ clearCount[i] <= 1
      /\ checkCount[i] = (checks[i] - (IF throwCheck[i] > 0 THEN 1 ELSE 0)) % 10
      /\ (isUsingFallbackTimer /\ checks[i] > 0)
           => lastRemaining[i] = MultiBaseline - (checks[i] - 1) * checkIntervalMs
      /\ handlerCalls[i] <= 1 /\ cleanupCalls[i] <= 1
      /\ (handlerCalls[i] > 0 \/ cleanupCalls[i] > 0)
           => (triggerCheck[i] = checks[i] /\ lastRemaining[i] <= safetyMarginMs)
      /\ pc[i] = "done"
           => \/ result[i] = Fulfilled(TaskResultOf(i))
              \/ result[i] = Rejected(Val("taskError"))
              \/ result[i].v.isLambdaTimeout /\ handlerCalls[i] = 1
              \/ result[i] = Rejected(Val("sourceError")) /\ throwCheck[i] > 0

\* one invocation has timed out and settled while the other, started later,
\* is still running with its timer active
NoSharedStateWitness ==
    /\ pc[1] = "done"
    /\ result[1].st = "rejected" /\ result[1].v.isLambdaTimeout
    /\ pc[2] = "awaiting"
    /\ intervalActive[2]
    /\ checks[2] >= 2
    /\ checks[1] > checks[2]

\* ------------------------------------------------------------------- C18
\* a step in which checkTimeout ran and computed a remaining time
CheckComputed == checks' = checks + 1 /\ throwCheck' = throwCheck

\* C18: a check that computed a remaining time starts the shutdown sequence
\* if and only if remaining <= safetyMarginMs, equality included; a check
\* that computed more calls no handler, leaves the timer running and settles
\* nothing.
TriggerCondition ==
    [][CheckComputed =>
         /\ (triggerCheck' = checks') <=> (lastRemaining' <= safetyMarginMs)
         /\ lastRemaining' <= safetyMarginMs
              => /\ ~intervalActive'
                 /\ IF hasCleanup THEN cleanupCalls' = cleanupCalls + 1
                                  ELSE Len(microtasks') = Len(microtasks) + 1
         /\ lastRemaining' > safetyMarginMs
              => /\ triggerCheck' = triggerCheck
                 /\ cleanupCalls' = cleanupCalls /\ cleanup' = cleanup
                 /\ handlerCalls' = handlerCalls /\ handler' = handler
                 /\ intervalActive' /\ intervalId' = "timer"
                 /\ result' = result /\ p2' = p2 /\ race' = race
                 /\ microtasks' = microtasks]_vars

\* a check that saw more than the margin, then one that saw exactly the margin
TriggerConditionWitness ==
    /\ checks >= 2
    /\ triggerCheck = checks
    /\ lastRemaining = safetyMarginMs

\* ------------------------------------------------------------------- C19
\* C19: once a check has triggered shutdown, no further check runs in the
\* invocation, however long the handlers take, and shutdown is not triggered
\* again.
NoCheckAfterTrigger ==
    [][triggered => (checks' = checks /\ triggerCheck' = triggerCheck
                       /\ sourceCalls' = sourceCalls /\ ~intervalActive')]_vars

\* the handlers have been running for longer than checkIntervalMs
NoCheckAfterTriggerWitness ==
    /\ triggered
    /\ cleanupCalls = 1
    /\ handlerCalls = 1
    /\ handler.st = "pending"
    /\ ~invSettled
    /\ now > intervalDue + checkIntervalMs

\* ------------------------------------------------------------------- C20
\* C20: with timers firing on time, the first check runs at invocation
\* start, before any time has passed and before any reaction to the task's
\* promise has run; the k-th check after it runs k * checkIntervalMs later,
\* for as long as the timer is active; only an invocation that failed before
\* line 203 ends without a check.
CheckCadence ==
    /\ checks = 0 => /\ invSettled \/ now = 0
                     /\ p1.st = "pending" /\ race.st = "pending"
                     /\ pc \in {"start", "callTask", "executor", "initialCheck", "done"}
    /\ (checks = 0 /\ invSettled) => task.st \in {"notCalled", "threw"}
    /\ (intervalActive /\ pc # "initialCheck")
         => /\ intervalDue = checks * checkIntervalMs
            /\ intervalDue - checkIntervalMs <= now
            /\ now <= intervalDue
    /\ triggerCheck = 1 => intervalDue = checkIntervalMs

\* an already-short deadline: the first check triggers shutdown at time 0
CheckCadenceWitness ==
    /\ triggerCheck = 1
    /\ now = 0
    /\ lastRemaining < safetyMarginMs
    /\ pc = "subscribe"

\* ------------------------------------------------------------------- C21
\* C21: while shutdown has been triggered with a cleanup handler and the
\* timeout handler has not been started, either a job of the shutdown
\* sequence is still queued or the budget timer is armed and not overdue,
\* so that the timeout handler starts no later than cleanupTimeMs after the
\* cleanup handler, whatever the cleanup handler does.
BoundedCleanup ==
    (triggered /\ hasCleanup /\ handlerCalls = 0 /\ Looping /\ microtasks = <<>>)
        => /\ cleanupTimer = "armed"
           /\ now <= cleanupDue

\* ------------------------------------------------------------------- C22
\* C22: when the timeout handler has been started with a cleanup handler
\* provided, the cleanup handler has been called and has resolved, rejected,
\* thrown or exhausted its budget, and the wrapper's cleanup step has
\* settled; with no cleanup handler the call of the timeout handler is
\* queued by the trigger itself.
HandlerAfterCleanupStep ==
    /\ (hasCleanup /\ handlerCalls > 0)
         => /\ cleanupCalls = 1
            /\ cleanup.st \in {"fulfilled", "rejected", "threw"} \/ cleanupTimer = "fired"
            /\ pu.st \in {"fulfilled", "rejected"}
            /\ puc.st = "fulfilled"
    /\ (~hasCleanup /\ triggered /\ handlerCalls = 0)
         => \E k \in DOMAIN microtasks : microtasks[k] = "systemHandler"
    /\ ~hasCleanup => cleanupCalls = 0 /\ cleanupTimer = "none"

\* the cleanup handler rejected within its budget, then the timeout handler
\* was started
HandlerAfterCleanupStepWitness ==
    /\ hasCleanup
    /\ cleanup.st = "rejected"
    /\ cleanupTimer = "cleared"
    /\ handlerCalls = 1
    /\ handler.st = "pending"

\* ------------------------------------------------------------------- C23
\* C23: in fallback mode the source is called once, when the invocation
\* has passed validation and before the task is started, and never by a
\* check; in live mode it is called once by every check and at no other
\* time.
SourceUsage ==
    /\ isUsingFallbackTimer
         => /\ sourceCalls = (IF pc = "start" \/ ValidationError # None THEN 0 ELSE 1)
            /\ task # NotCalled => sourceCalls = 1
    /\ ~isUsingFallbackTimer => sourceCalls = checks
    /\ pc \in {"start", "callTask"} => checks = 0

\* a fallback invocation after several checks
SourceUsageWitness ==
    /\ isUsingFallbackTimer
    /\ getRemainingTimeInMillis = "function"
    /\ checks >= 3
    /\ sourceCalls = 1
    /\ ~triggered

\* ------------------------------------------------------------------- C24
\* C24: in fallback mode every check computes
\* initialTimeRemaining - (now - startTime), never more than the check
\* before it, without calling the source and without throwing.
FallbackMonotone ==
    [][(isUsingFallbackTimer /\ checks' = checks + 1)
         => /\ lastRemaining' = initialTimeRemaining - (now - startTime)
            /\ checks > 0 => lastRemaining' <= lastRemaining
            /\ sourceCalls' = sourceCalls
            /\ throwCheck' = throwCheck
            /\ initialTimeRemaining' = initialTimeRemaining
            /\ startTime' = startTime]_vars

\* the third check of a fallback invocation sees less than the first
FallbackMonotoneWitness ==
    /\ isUsingFallbackTimer
    /\ checks >= 3
    /\ lastRemaining = initialTimeRemaining - 2 * checkIntervalMs
    /\ startTime = 0

\* ------------------------------------------------------------------- C25
\* C25: in fallback mode shutdown is triggered by the first check whose
\* elapsed time is at least initialTimeRemaining - safetyMarginMs; and if
\* the task is still pending when the handlers have settled, the invocation
\* has rejected with a timeout-marked error.
FallbackDetection ==
    /\ (isUsingFallbackTimer /\ checks > 0 /\ ~triggered)
         => (checks - 1) * checkIntervalMs < initialTimeRemaining - safetyMarginMs
    /\ (isUsingFallbackTimer /\ triggered)
         => /\ (triggerCheck - 1) * checkIntervalMs
                  >= initialTimeRemaining - safetyMarginMs
            /\ triggerCheck > 1
                 => (triggerCheck - 2) * checkIntervalMs
                        < initialTimeRemaining - safetyMarginMs
    /\ (isUsingFallbackTimer /\ triggered /\ task.st = "pending" /\ Looping
          /\ handler.st \in {"fulfilled", "rejected"} /\ microtasks = <<>>)
         => /\ invSettled
            /\ result.st = "rejected"
            /\ result.v.isLambdaTimeout

\* ------------------------------------------------------------------- C26
\* C26: with a running event loop, an invocation whose task has settled
\* eventually settles, and so does one in which shutdown was triggered and
\* the timeout handler has settled; a cleanup handler that stays pending is
\* abandoned when its budget expires and the timeout handler is called.
Termination ==
    /\ (task.st \in {"fulfilled", "rejected", "threw"}
          \/ (triggered /\ handler.st \in {"fulfilled", "rejected", "threw"}))
         ~> invSettled
    /\ [](triggered /\ cleanup.st = "pending" /\ handlerCalls = 0
            /\ Looping /\ microtasks = <<>>
           => cleanupTimer = "armed" /\ now <= cleanupDue)

\* the invocation has settled with the timeout error although the cleanup
\* handler never settled
TerminationWitness ==
    /\ invSettled
    /\ result.st = "rejected" /\ result.v.isLambdaTimeout
    /\ task.st = "pending"
    /\ cleanup.st = "pending"
    /\ cleanupTimer = "fired"
    /\ handler.st = "fulfilled"

\* ------------------------------------------------------------------- C27
\* A long-running invocation in live mode: the task stays pending and the
\* source keeps reporting more than the safety margin, so that the timer
\* keeps ticking and the check counter wraps around.
MaxTimeLog == 20

\* what the source does in these checks: values around the danger zone, or
\* an error
LogSourceOutcomes ==
    [t : {"returns"},
     n : {safetyMarginMs + 1, 3 * safetyMarginMs, 3 * safetyMarginMs + 1},
     e : {None}]
    \cup [t : {"throws"}, n : {0}, e : {Val("sourceError")}]

\* the state in which a valid invocation awaits the race, after an initial
\* check that did not trigger
InitLog ==
    /\ isUsingFallbackTimer = FALSE
    /\ getRemainingTimeInMillis = "function"
    /\ timeoutHandler = "function"
    /\ userCleanupHandler = "function"
    /\ pc = "awaiting"
    /\ result = Pending
    /\ startTime = -1
    /\ initialTimeRemaining = -1
    /\ intervalId = "timer"
    /\ intervalActive = TRUE
    /\ intervalDue = checkIntervalMs
    /\ clearCount = 0
    /\ checkCount = NextCheckCount(0)
    /\ task = Pending
    /\ p1 = Pending
    /\ p2 = Pending
    /\ race = Pending
    /\ cleanup = NotCalled
    /\ cleanupTimer = "none"
    /\ cleanupDue = 0
    /\ pu = Pending
    /\ puc = Pending
    /\ pclSubscribed = FALSE
    /\ handler = NotCalled
    /\ pa = Pending
    /\ phSubscribed = FALSE
    /\ ph = Pending
    /\ phc = Pending
    /\ microtasks = <<>>
    /\ now = 0
    /\ \E o \in LogSourceOutcomes :
         /\ o.t = "returns"
         /\ lastRemaining = o.n
         /\ checkLogged = LogsCheck(o.n, NextCheckCount(0))
    /\ checks = 1
    /\ triggerCheck = 0
    /\ throwCheck = 0
    /\ sourceThrown = None
    /\ sourceCalls = 1
    /\ cleanupCalls = 0
    /\ handlerCalls = 0
    /\ taskSettledAt = [settled |-> FALSE, triggered |-> FALSE, threw |-> FALSE]
    /\ lateCheck = FALSE
    /\ overlap = FALSE
    /\ unhandled = FALSE

\* lines 203-212: the interval fires and runs checkTimeout
LogTick ==
    /\ microtasks = <<>>
    /\ intervalActive
    /\ now >= intervalDue
    /\ \E src \in LogSourceOutcomes :
         checkTimeout(src, [t |-> "pending", v |-> None], "tickCatch")
    /\ intervalDue' = NextDue
    /\ UNCHANGED pc

\* time passes up to the next tick
LogElapse ==
    /\ microtasks = <<>>
    /\ now < MaxTimeLog
    /\ intervalActive
    /\ now < intervalDue
    /\ now' = now + 1
    /\ UNCHANGED <<optVars, invVars, timerVars, checkCount, raceVars, cleanupVars,
                   handlerVars, microtasks, obsVars>>

NextLog == LogTick \/ LogElapse

SpecLog == InitLog /\ [][NextLog]_vars

\* the number of checks that computed a remaining time
computedChecks == checks - (IF checkThrew THEN 1 ELSE 0)

\* C27: the check counter stays in 0..9 and is the number of checks that
\* computed a remaining time, modulo 10; the latest of them logged its
\* 'Timeout check' line if and only if it saw remaining <= 3 * safetyMarginMs
\* or was the 10th, 20th, ... check.
CheckLogRate ==
    /\ checkCount \in 0..9
    /\ checkCount = computedChecks % 10
    /\ computedChecks > 0
         => (checkLogged <=> (lastRemaining <= 3 * safetyMarginMs
                                \/ computedChecks % 10 = 0))

\* the 20th check logs although it is outside the danger zone, the 19th
\* did not
CheckLogRateWitness ==
    /\ checks = 20
    /\ ~checkThrew
    /\ lastRemaining > 3 * safetyMarginMs
    /\ checkLogged
    /\ checkCount = 0

\* ------------------------------------------------------------------- C28
\* line 97 threw: the fallback baseline could not be read
baselineFailed ==
    /\ isUsingFallbackTimer
    /\ ValidationError = None
    /\ pc = "done"
    /\ initialTimeRemaining = -1

\* C28 as stated: every invocation that passes validation starts the task.
TaskAlwaysStartedAsStated ==
    (ValidationError = None /\ pc \notin {"start", "callTask"}) => task # NotCalled

\* C28: every invocation that passes validation and, in fallback mode,
\* reads its baseline without an error, calls the task, before the timer is
\* set up and before the first check, also when that check triggers
\* shutdown; afterwards only the task itself changes the task's promise.
TaskAlwaysStarted ==
    /\ (ValidationError = None /\ pc \notin {"start", "callTask"} /\ ~baselineFailed)
         => task # NotCalled
    /\ task = NotCalled
         => /\ checks = 0
            /\ intervalId = "null" /\ ~intervalActive
            /\ cleanupCalls = 0 /\ handlerCalls = 0
    /\ baselineFailed => task = NotCalled
    /\ (triggered /\ ~taskSettledAt.settled) => task.st = "pending"

\* the deadline was already short at the start: the first check triggers
\* shutdown with the task started and running
TaskAlwaysStartedWitness ==
    /\ triggerCheck = 1
    /\ lastRemaining < safetyMarginMs
    /\ task.st = "pending"
    /\ handlerCalls = 1
    /\ now = 0

\* ------------------------------------------------------------------- C29
\* C29: once the cleanup step is over (userCleanupPromise has settled, or
\* the timeout handler has been called) the budget timer has fired or been
\* cleared; an invocation that settled through the shutdown sequence leaves
\* neither the budget timer nor the interval behind.
BudgetTimerReleased ==
    /\ (pu.st # "pending" \/ puc.st # "pending" \/ handlerCalls > 0)
         => cleanupTimer \in {"none", "fired", "cleared"}
    /\ cleanupTimer = "none" <=> cleanupCalls = 0
    /\ cleanup.st \in {"threw"} => cleanupTimer = "cleared"
    /\ (cleanup.st \in {"fulfilled", "rejected"} /\ microtasks = <<>> /\ Looping)
         => cleanupTimer \in {"fired", "cleared"}
    /\ (invSettled /\ handlerCalls > 0 /\ p2.st = "rejected" /\ result = p2)
         => cleanupTimer # "armed" /\ ~intervalActive

\* the cleanup handler resolved within its budget and the invocation ended
\* with the timeout error
BudgetTimerReleasedWitness ==
    /\ invSettled
    /\ result.st = "rejected" /\ result.v.isLambdaTimeout
    /\ cleanup.st = "fulfilled"
    /\ cleanupTimer = "cleared"

\* ------------------------------------------------------------------- C30
\* C30: in fallback mode, when the baseline read of the remaining-time
\* source throws, the invocation rejects with exactly the thrown value, not
\* marked as a timeout; the task is never started, no timer is created, no
\* check runs and no handler is called.
BaselineFailure ==
    /\ baselineFailed
         => /\ invSettled
            /\ sourceThrown \in SourceErrors
            /\ result = Rejected(sourceThrown)
            /\ ~result.v.isLambdaTimeout
            /\ sourceCalls = 1
            /\ task = NotCalled
            /\ intervalId = "null" /\ ~intervalActive /\ clearCount = 0
            /\ cleanupTimer = "none"
            /\ checks = 0
            /\ cleanupCalls = 0 /\ handlerCalls = 0
            /\ microtasks = <<>>
    /\ (isUsingFallbackTimer /\ ValidationError = None /\ pc # "start"
          /\ throwCheck = 0 /\ sourceThrown # None)
         => baselineFailed

\* the baseline read threw undefined, and time has passed since
BaselineFailureWitness ==
    /\ baselineFailed
    /\ sourceThrown = Nullish
    /\ result = Rejected(Nullish)
    /\ now > 0

====
